---- MODULE Spec2Model ----
(***************************************************************************)
(* Voter duplicate detection (src/app.py): the field similarity metrics,   *)
(* the tiered pair classifier, the pairwise scan of detect_duplicates and  *)
(* the summary statistics shown after a scan.                              *)
(*                                                                         *)
(* Units.  Name similarity is a weighted average with weights .30/.20/     *)
(* .25/.25 of four integer percentages, so it is carried in hundredths of  *)
(* a percent (0..10000).  Address similarity is an integer percentage.     *)
(* A confidence score is carried in units of 1/14600 percent, the least    *)
(* common denominator of the three confidence formulas (2 * 100 * 73).     *)
(***************************************************************************)
EXTENDS Integers, Sequences, FiniteSets, TLC

VARIABLES df, columns, config, pc, i, j, compared, duplicates, classified,
          skips, stats, previous

vars == <<df, columns, config, pc, i, j, compared, duplicates, classified,
          skips, stats, previous>>

\* Largest number of rows of the uploaded table.
MaxRecords == 3

NaN == "NaN"
None == "None"

---------------------------------------------------------------------------
(* The uploaded table.                                                     *)

RequiredColumns == {"Voter_ID", "Full_Name", "Date_of_Birth", "Address"}

\* Rows of the uploaded CSV.  A cell is text, or NaN where the CSV cell is
\* empty.
RecordPool ==
  { [Voter_ID |-> "V1", Full_Name |-> "Ravi Kumar Sharma",
     Date_of_Birth |-> "1990-01-01", Address |-> "12 MG Road, Pune"],
    [Voter_ID |-> "V2", Full_Name |-> " ravi kumar sharmaa",
     Date_of_Birth |-> "1992-09-27", Address |-> "7 Park Street, Kolkata"],
    [Voter_ID |-> "V3", Full_Name |-> "Ravi Kuamr Sharma",
     Date_of_Birth |-> "1990-01-21", Address |-> "Flat 4, 12 MG Road, Pune"],
    [Voter_ID |-> "V4", Full_Name |-> NaN,
     Date_of_Birth |-> NaN, Address |-> "12 MG Road, Pune"],
    [Voter_ID |-> "V5", Full_Name |-> "Anita Desai",
     Date_of_Birth |-> "unknown", Address |-> NaN],
    [Voter_ID |-> "V6", Full_Name |-> "ravi kumar sharma ",
     Date_of_Birth |-> NaN, Address |-> "12 MG Road, Pune"] }

Tables == UNION { [1..n -> RecordPool] : n \in 0..MaxRecords }

\* The table is missing at most one of the required columns.
ColumnSets == {RequiredColumns} \cup { RequiredColumns \ {c} : c \in RequiredColumns }

---------------------------------------------------------------------------
(* Sidebar settings (the DetectionConfig of a run).  The sliders offer     *)
(* 50..100 for the thresholds and 0..365 for the tolerance;                *)
(* detect_duplicates itself takes any value, and 0, 1000 and 999999 stand  *)
(* for the settings outside the sliders.                                   *)

NameThresholds == {0, 85, 98}
DobTolerances == {0, 30, 1000, 999999}
AddrThresholds == {70}

Configs == [name_threshold : NameThresholds, dob_tolerance_days : DobTolerances,
            check_addr : BOOLEAN, addr_threshold : AddrThresholds]

---------------------------------------------------------------------------
(* pd.isna and str(x).strip().upper()                                      *)

isna(x) == x = NaN

Normalize(s) ==
  CASE s = "Ravi Kumar Sharma" -> "RAVI KUMAR SHARMA"
    [] s = "ravi kumar sharma " -> "RAVI KUMAR SHARMA"
    [] s = " ravi kumar sharmaa" -> "RAVI KUMAR SHARMAA"
    [] s = "Ravi Kuamr Sharma" -> "RAVI KUAMR SHARMA"
    [] s = "Anita Desai" -> "ANITA DESAI"
    [] s = "12 MG Road, Pune" -> "12 MG ROAD, PUNE"
    [] s = "Flat 4, 12 MG Road, Pune" -> "FLAT 4, 12 MG ROAD, PUNE"
    [] s = "7 Park Street, Kolkata" -> "7 PARK STREET, KOLKATA"

---------------------------------------------------------------------------
(* fuzzywuzzy's four measures at the normalized strings of the pool        *)
(* (integer percentages; equal strings score 100).                         *)

Is(s1, s2, a, b) == {s1, s2} = {a, b}

fuzz_ratio(s1, s2) ==
  CASE s1 = s2 -> 100
    [] Is(s1, s2, "RAVI KUMAR SHARMA", "RAVI KUMAR SHARMAA") -> 97
    [] Is(s1, s2, "RAVI KUMAR SHARMA", "RAVI KUAMR SHARMA") -> 94
    [] Is(s1, s2, "RAVI KUMAR SHARMAA", "RAVI KUAMR SHARMA") -> 91
    [] Is(s1, s2, "RAVI KUMAR SHARMA", "ANITA DESAI") -> 29
    [] Is(s1, s2, "RAVI KUMAR SHARMAA", "ANITA DESAI") -> 28
    [] Is(s1, s2, "RAVI KUAMR SHARMA", "ANITA DESAI") -> 29

fuzz_partial_ratio(s1, s2) ==
  CASE s1 = s2 -> 100
    [] Is(s1, s2, "RAVI KUMAR SHARMA", "RAVI KUMAR SHARMAA") -> 100
    [] Is(s1, s2, "RAVI KUMAR SHARMA", "RAVI KUAMR SHARMA") -> 94
    [] Is(s1, s2, "RAVI KUMAR SHARMAA", "RAVI KUAMR SHARMA") -> 94
    [] Is(s1, s2, "RAVI KUMAR SHARMA", "ANITA DESAI") -> 45
    [] Is(s1, s2, "RAVI KUMAR SHARMAA", "ANITA DESAI") -> 45
    [] Is(s1, s2, "RAVI KUAMR SHARMA", "ANITA DESAI") -> 45

fuzz_token_sort_ratio(s1, s2) ==
  CASE s1 = s2 -> 100
    [] Is(s1, s2, "RAVI KUMAR SHARMA", "RAVI KUMAR SHARMAA") -> 97
    [] Is(s1, s2, "RAVI KUMAR SHARMA", "RAVI KUAMR SHARMA") -> 94
    [] Is(s1, s2, "RAVI KUMAR SHARMAA", "RAVI KUAMR SHARMA") -> 91
    [] Is(s1, s2, "RAVI KUMAR SHARMA", "ANITA DESAI") -> 29
    [] Is(s1, s2, "RAVI KUMAR SHARMAA", "ANITA DESAI") -> 28
    [] Is(s1, s2, "RAVI KUAMR SHARMA", "ANITA DESAI") -> 29

fuzz_token_set_ratio(s1, s2) ==
  CASE s1 = s2 -> 100
    [] Is(s1, s2, "RAVI KUMAR SHARMA", "RAVI KUMAR SHARMAA") -> 97
    [] Is(s1, s2, "RAVI KUMAR SHARMA", "RAVI KUAMR SHARMA") -> 94
    [] Is(s1, s2, "RAVI KUMAR SHARMAA", "RAVI KUAMR SHARMA") -> 91
    [] Is(s1, s2, "RAVI KUMAR SHARMA", "ANITA DESAI") -> 29
    [] Is(s1, s2, "RAVI KUMAR SHARMAA", "ANITA DESAI") -> 28
    [] Is(s1, s2, "RAVI KUAMR SHARMA", "ANITA DESAI") -> 29
    [] Is(s1, s2, "12 MG ROAD, PUNE", "FLAT 4, 12 MG ROAD, PUNE") -> 100
    [] Is(s1, s2, "12 MG ROAD, PUNE", "7 PARK STREET, KOLKATA") -> 22
    [] Is(s1, s2, "FLAT 4, 12 MG ROAD, PUNE", "7 PARK STREET, KOLKATA") -> 33

---------------------------------------------------------------------------
(* Field similarity metrics.                                               *)

\* Faulty variant: two missing names count as identical names.
calculate_name_similarity_missing_equal(name1, name2) ==
  IF isna(name1) /\ isna(name2) THEN 10000
  ELSE IF isna(name1) \/ isna(name2) THEN 0
  ELSE LET n1 == Normalize(name1)
           n2 == Normalize(name2)
       IN  fuzz_ratio(n1, n2) * 30 + fuzz_partial_ratio(n1, n2) * 20
           + fuzz_token_sort_ratio(n1, n2) * 25 + fuzz_token_set_ratio(n1, n2) * 25

\* Hundredths of a percent: 100 * (ratio*0.3 + partial_ratio*0.2 +
\* token_sort*0.25 + token_set*0.25).
calculate_name_similarity(name1, name2) ==
  IF isna(name1) \/ isna(name2) THEN 0
  ELSE LET n1 == Normalize(name1)
           n2 == Normalize(name2)
       IN  fuzz_ratio(n1, n2) * 30 + fuzz_partial_ratio(n1, n2) * 20
           + fuzz_token_sort_ratio(n1, n2) * 25 + fuzz_token_set_ratio(n1, n2) * 25

calculate_address_similarity(addr1, addr2) ==
  IF isna(addr1) \/ isna(addr2) THEN 0
  ELSE fuzz_token_set_ratio(Normalize(addr1), Normalize(addr2))

DOB_SENTINEL == 999999

\* The year, month and day a date string holds; text that is no date has
\* none and makes pd.to_datetime raise.
DateFields(cell) ==
  CASE cell = "1990-01-01" -> <<1990, 1, 1>>
    [] cell = "1990-01-21" -> <<1990, 1, 21>>
    [] cell = "1992-09-27" -> <<1992, 9, 27>>
    [] OTHER -> << >>

\* pd.to_datetime of a date string, as a day number (proleptic Gregorian
\* calendar).
to_datetime(cell) ==
  LET ymd == DateFields(cell)
      y == IF ymd[2] <= 2 THEN ymd[1] - 1 ELSE ymd[1]
      era == y \div 400
      yoe == y - era * 400
      mp == (ymd[2] + 9) % 12
      doy == (153 * mp + 2) \div 5 + ymd[3] - 1
      doe == yoe * 365 + yoe \div 4 - yoe \div 100 + doy
  IN  era * 146097 + doe

Abs(x) == IF x < 0 THEN -x ELSE x

\* Faulty variant: the except branch returns 0.
calculate_dob_difference_except_zero(dob1, dob2) ==
  IF isna(dob1) \/ isna(dob2) THEN DOB_SENTINEL
  ELSE IF DateFields(dob1) = << >> \/ DateFields(dob2) = << >> THEN 0
  ELSE Abs(to_datetime(dob1) - to_datetime(dob2))

calculate_dob_difference(dob1, dob2) ==
  IF isna(dob1) \/ isna(dob2) THEN DOB_SENTINEL
  ELSE IF DateFields(dob1) = << >> \/ DateFields(dob2) = << >> THEN DOB_SENTINEL
  ELSE Abs(to_datetime(dob1) - to_datetime(dob2))

---------------------------------------------------------------------------
(* The pair classifier: lines 131-166 of detect_duplicates.                *)

HIGH_NAME_MATCH == 95

\* Faulty variant: the comparison is the wrong way round.
AboveNameThreshold(name_sim, name_threshold) == name_sim > name_threshold * 100

\* if name_sim < name_threshold: continue
BelowNameThreshold(name_sim, name_threshold) == name_sim < name_threshold * 100

Tier1(name_sim) == name_sim >= HIGH_NAME_MATCH * 100

\* Faulty variant: the DOB tolerance is not consulted.
Tier2NoDob(name_sim, dob_diff, cfg) == name_sim >= cfg.name_threshold * 100

Tier2(name_sim, dob_diff, cfg) ==
  name_sim >= cfg.name_threshold * 100 /\ dob_diff <= cfg.dob_tolerance_days

Tier3(name_sim, addr_sim, cfg) ==
  name_sim >= cfg.name_threshold * 100 /\ cfg.check_addr
  /\ addr_sim >= cfg.addr_threshold

\* Confidence scores, in units of 1/14600 percent.
Tier1Confidence(name_sim) == 146 * name_sim

\* (name_sim + (100 - dob_diff / 365 * 100)) / 2
Tier2Confidence(name_sim, dob_diff) == 73 * name_sim + 730000 - 2000 * dob_diff

\* Faulty variant: the sum is not halved.
Tier3ConfidenceNotHalved(name_sim, addr_sim) == 2 * (73 * name_sim + 7300 * addr_sim)

\* (name_sim + addr_sim) / 2
Tier3Confidence(name_sim, addr_sim) == 73 * name_sim + 7300 * addr_sim

\* Faulty variant: the address branch is tried before the DOB branch.
ClassifyAddressFirst(name_sim, dob_diff, addr_sim, cfg) ==
  IF Tier1(name_sim)
  THEN [is_duplicate |-> TRUE, confidence |-> Tier1Confidence(name_sim),
        reasons |-> <<"High name similarity">>]
  ELSE IF Tier3(name_sim, addr_sim, cfg)
  THEN [is_duplicate |-> TRUE, confidence |-> Tier3Confidence(name_sim, addr_sim),
        reasons |-> <<"Name similarity", "Address similarity">>]
  ELSE IF Tier2(name_sim, dob_diff, cfg)
  THEN [is_duplicate |-> TRUE, confidence |-> Tier2Confidence(name_sim, dob_diff),
        reasons |-> <<"Name similarity", "DOB difference">>]
  ELSE [is_duplicate |-> FALSE, confidence |-> 0, reasons |-> << >>]

\* The verdict on one pair: is_duplicate, confidence and reasons.
Classify(name_sim, dob_diff, addr_sim, cfg) ==
  IF Tier1(name_sim)
  THEN [is_duplicate |-> TRUE, confidence |-> Tier1Confidence(name_sim),
        reasons |-> <<"High name similarity">>]
  ELSE IF Tier2(name_sim, dob_diff, cfg)
  THEN [is_duplicate |-> TRUE, confidence |-> Tier2Confidence(name_sim, dob_diff),
        reasons |-> <<"Name similarity", "DOB difference">>]
  ELSE IF Tier3(name_sim, addr_sim, cfg)
  THEN [is_duplicate |-> TRUE, confidence |-> Tier3Confidence(name_sim, addr_sim),
        reasons |-> <<"Name similarity", "Address similarity">>]
  ELSE [is_duplicate |-> FALSE, confidence |-> 0, reasons |-> << >>]

---------------------------------------------------------------------------
(* detect_duplicates: the scan over all pairs of row positions.            *)

Row(k) == df[k + 1]

Min(a, b) == IF a <= b THEN a ELSE b
Max(a, b) == IF a <= b THEN b ELSE a

\* pair = tuple(sorted([i, j]))
PairKey(a, b) == <<Min(a, b), Max(a, b)>>

\* Faulty variants of the inner range: range(i, n) and range(n).
InnerStartSelf(a) == a
InnerStartZero(a) == 0

\* for j in range(i + 1, n)
InnerStart(a) == a + 1

\* The first loop position (i, j) at or after row a whose inner range is
\* not empty; <<n, n>> when the loops are exhausted.
RECURSIVE FirstPosition(_, _)
FirstPosition(a, n) ==
  IF a >= n THEN <<n, n>>
  ELSE IF InnerStart(a) < n THEN <<a, InnerStart(a)>>
  ELSE FirstPosition(a + 1, n)

\* The loop position after the iteration at (a, b).
NextPosition(a, b, n) ==
  IF b + 1 < n THEN <<a, b + 1>> ELSE FirstPosition(a + 1, n)

\* Faulty variant: the entry is appended in the tier branch and again
\* after it.
AppendDuplicateTwice(dups, entry) == dups \o <<entry, entry>>

\* duplicates.append({...})
AppendDuplicate(dups, entry) == Append(dups, entry)

\* One iteration of the inner loop at (a, b), up to its continue, its
\* append or the KeyError a missing column raises.
Iteration(a, b) ==
  LET pair == PairKey(a, b)
      record1 == Row(a)
      record2 == Row(b)
      name_sim == calculate_name_similarity(record1.Full_Name, record2.Full_Name)
      dob_diff == calculate_dob_difference(record1.Date_of_Birth, record2.Date_of_Birth)
      addr_sim == IF config.check_addr
                  THEN calculate_address_similarity(record1.Address, record2.Address)
                  ELSE 0
      verdict == Classify(name_sim, dob_diff, addr_sim, config)
      entry == [Record_1_Index |-> a, Record_2_Index |-> b,
                Voter_ID_1 |-> record1.Voter_ID, Voter_ID_2 |-> record2.Voter_ID,
                Name_Similarity |-> name_sim, DOB_Difference_Days |-> dob_diff,
                Address_Similarity |-> addr_sim,
                Confidence_Score |-> verdict.confidence,
                Detection_Reasons |-> verdict.reasons]
  IN  IF pair \in compared
      THEN [kind |-> "skip", compared |-> compared, classified |-> classified,
            duplicates |-> duplicates]
      ELSE IF "Full_Name" \notin columns
      THEN [kind |-> "KeyError", compared |-> compared \cup {pair},
            classified |-> classified, duplicates |-> duplicates]
      ELSE IF BelowNameThreshold(name_sim, config.name_threshold)
      THEN [kind |-> "continue", compared |-> compared \cup {pair},
            classified |-> Append(classified, pair), duplicates |-> duplicates]
      ELSE IF \/ "Date_of_Birth" \notin columns
              \/ config.check_addr /\ "Address" \notin columns
      THEN [kind |-> "KeyError", compared |-> compared \cup {pair},
            classified |-> Append(classified, pair), duplicates |-> duplicates]
      ELSE IF ~verdict.is_duplicate
      THEN [kind |-> "continue", compared |-> compared \cup {pair},
            classified |-> Append(classified, pair), duplicates |-> duplicates]
      ELSE IF "Voter_ID" \notin columns \/ "Address" \notin columns
      THEN [kind |-> "KeyError", compared |-> compared \cup {pair},
            classified |-> Append(classified, pair), duplicates |-> duplicates]
      ELSE [kind |-> "append", compared |-> compared \cup {pair},
            classified |-> Append(classified, pair),
            duplicates |-> AppendDuplicate(duplicates, entry)]

Init ==
  /\ df \in Tables
  /\ columns \in ColumnSets
  /\ config \in Configs
  /\ pc = "loaded"
  /\ i = 0
  /\ j = 0
  /\ compared = {}
  /\ duplicates = << >>
  /\ classified = << >>
  /\ skips = 0
  /\ stats = << >>
  /\ previous = << >>

\* The "Detect Duplicates" button: detect_duplicates up to its first
\* inner-loop iteration.
DetectDuplicates ==
  /\ pc = "loaded"
  /\ LET first == FirstPosition(0, Len(df))
     IN  /\ i' = first[1]
         /\ j' = first[2]
         /\ pc' = IF first[1] < Len(df) THEN "scan" ELSE "returned"
  /\ compared' = {}
  /\ duplicates' = << >>
  /\ classified' = << >>
  /\ skips' = 0
  /\ stats' = << >>
  /\ UNCHANGED <<df, columns, config, previous>>

\* One iteration of the inner loop, and the loop bookkeeping up to the
\* next one.
ScanPair ==
  /\ pc = "scan"
  /\ LET out == Iteration(i, j)
         next == NextPosition(i, j, Len(df))
     IN  /\ compared' = out.compared
         /\ classified' = out.classified
         /\ duplicates' = out.duplicates
         /\ skips' = IF out.kind = "skip" THEN skips + 1 ELSE skips
         /\ IF out.kind = "KeyError"
            THEN pc' = "KeyError" /\ UNCHANGED <<i, j>>
            ELSE /\ i' = next[1]
                 /\ j' = next[2]
                 /\ pc' = IF next[1] < Len(df) THEN "scan" ELSE "returned"
  /\ UNCHANGED <<df, columns, config, stats, previous>>

---------------------------------------------------------------------------
(* The statistics shown after a scan (lines 225-241).                      *)

ToSet(seq) == { seq[k] : k \in DOMAIN seq }

Column(dups, field) == [k \in DOMAIN dups |-> dups[k][field]]

\* Faulty variant: the two lists are counted without set(...).
CountWithRepeats(dups) ==
  Len(Column(dups, "Voter_ID_1") \o Column(dups, "Voter_ID_2"))

\* len(set(Voter_ID_1.tolist() + Voter_ID_2.tolist()))
UniqueDuplicates(dups) ==
  Cardinality(ToSet(Column(dups, "Voter_ID_1") \o Column(dups, "Voter_ID_2")))

RECURSIVE SumSeq(_)
SumSeq(seq) == IF seq = << >> THEN 0 ELSE Head(seq) + SumSeq(Tail(seq))

\* A quotient is kept exact, as <<numerator, denominator>>; the numerator of
\* the mean confidence is the pair of its whole percents and the remaining
\* 1/14600ths.
Statistics(dups, total) ==
  LET unique_duplicates == UniqueDuplicates(dups)
      scores == Column(dups, "Confidence_Score")
      whole == [k \in DOMAIN scores |-> scores[k] \div 14600]
      rest == [k \in DOMAIN scores |-> scores[k] % 14600]
  IN  [total_records |-> total,
       unique_duplicates |-> unique_duplicates,
       duplicate_percentage |-> <<unique_duplicates * 100, total>>,
       avg_confidence |-> <<<<SumSeq(whole), SumSeq(rest)>>, Len(dups)>>]

\* The rest of the button handler once detect_duplicates has returned.
ShowResults ==
  /\ pc = "returned"
  /\ stats' = IF Len(duplicates) > 0
               THEN <<Statistics(duplicates, Len(df))>>
               ELSE << >>
  /\ pc' = "shown"
  /\ UNCHANGED <<df, columns, config, i, j, compared, duplicates, classified,
                 skips, previous>>

EmittedPairs(dups) ==
  { <<dups[k].Record_1_Index, dups[k].Record_2_Index>> : k \in DOMAIN dups }

\* The user moves the name-similarity slider after a scan: the script
\* reruns with the new setting and the old results are gone from the page.
\* previous remembers what that scan had emitted.
ChangeNameThreshold ==
  /\ pc = "shown"
  /\ previous = << >>
  /\ \E t \in NameThresholds \ {config.name_threshold} :
        config' = [config EXCEPT !.name_threshold = t]
  /\ previous' = <<[config |-> config, pairs |-> EmittedPairs(duplicates)]>>
  /\ pc' = "loaded"
  /\ i' = 0
  /\ j' = 0
  /\ compared' = {}
  /\ duplicates' = << >>
  /\ classified' = << >>
  /\ skips' = 0
  /\ stats' = << >>
  /\ UNCHANGED <<df, columns>>

Next == DetectDuplicates \/ ScanPair \/ ShowResults

Spec == Init /\ [][Next]_vars

\* Two scans of one well-formed table that differ in the name threshold.
InitRerun == Init /\ columns = RequiredColumns

NextRerun == DetectDuplicates \/ ScanPair \/ ShowResults \/ ChangeNameThreshold

SpecRerun == InitRerun /\ [][NextRerun]_vars

---------------------------------------------------------------------------
(* Properties of the scan.                                                 *)

AllPairs(n) == { <<a, b>> \in (0..(n - 1)) \X (0..(n - 1)) : a < b }

Unordered(entry) == {entry.Record_1_Index, entry.Record_2_Index}

Finished == pc \in {"returned", "shown"}

\* C1: at every point of a scan and at its end, no two entries of the
\* emitted list refer to the same unordered pair of row positions.
C1_PairUniqueness ==
  \A a, b \in DOMAIN duplicates :
     a # b => Unordered(duplicates[a]) # Unordered(duplicates[b])

\* A finished scan of three rows that emitted all three pairs.
C1_Witness ==
  /\ pc = "returned"
  /\ Len(duplicates) = 3
  /\ Len(df) = 3

\* C2: every emitted entry has Record_1_Index < Record_2_Index.
C2_CanonicalOrder ==
  \A k \in DOMAIN duplicates :
     duplicates[k].Record_1_Index < duplicates[k].Record_2_Index

\* The pair of the second and third row has been emitted.
C2_Witness ==
  \E k \in DOMAIN duplicates :
     duplicates[k].Record_1_Index = 1 /\ duplicates[k].Record_2_Index = 2

\* C3: the skip branch is never taken, no pair is classified twice, and
\* when the scan of n rows completes every pair (a, b) with
\* 0 <= a < b < n has been classified once and compared holds exactly
\* these n*(n-1)/2 pairs.
C3_EveryPairOnce ==
  /\ skips = 0
  /\ \A a, b \in DOMAIN classified : a # b => classified[a] # classified[b]
  /\ Finished =>
       /\ compared = AllPairs(Len(df))
       /\ ToSet(classified) = AllPairs(Len(df))
       /\ Len(classified) = (Len(df) * (Len(df) - 1)) \div 2

\* A completed scan of the largest table.
C3_Witness ==
  /\ pc = "returned"
  /\ Len(df) = MaxRecords
  /\ Len(classified) = (MaxRecords * (MaxRecords - 1)) \div 2

---------------------------------------------------------------------------
(* Properties of the classification.                                       *)

\* The three metrics of the rows at positions a and b.
NameSimOf(a, b) == calculate_name_similarity(Row(a).Full_Name, Row(b).Full_Name)
DobDiffOf(a, b) ==
  calculate_dob_difference(Row(a).Date_of_Birth, Row(b).Date_of_Birth)
AddrSimOf(a, b) == calculate_address_similarity(Row(a).Address, Row(b).Address)

\* A percentage in the unit of a confidence score.
Percent(x) == x * 14600

\* C4: whatever the settings, a scan of a well-formed table that completes
\* has emitted every pair
\* whose name similarity is at least 95, with the name similarity as its
\* confidence and the one reason "High name similarity".
C4_Tier1Unconditional ==
  Finished /\ columns = RequiredColumns =>
    \A p \in AllPairs(Len(df)) :
       NameSimOf(p[1], p[2]) >= 95 * 100 =>
         \E k \in DOMAIN duplicates :
            /\ duplicates[k].Record_1_Index = p[1]
            /\ duplicates[k].Record_2_Index = p[2]
            /\ 100 * duplicates[k].Confidence_Score = Percent(NameSimOf(p[1], p[2]))
            /\ duplicates[k].Detection_Reasons = <<"High name similarity">>

\* The duplicate predicate of the classifier, on the metrics of a pair.
DuplicatePredicate(a, b) ==
  \/ NameSimOf(a, b) >= 95 * 100
  \/ /\ NameSimOf(a, b) >= config.name_threshold * 100
     /\ DobDiffOf(a, b) <= config.dob_tolerance_days
  \/ /\ NameSimOf(a, b) >= config.name_threshold * 100
     /\ config.check_addr
     /\ AddrSimOf(a, b) >= config.addr_threshold

\* C5: every emitted pair satisfies the duplicate predicate.
C5_OnlyDuplicatesEmitted ==
  \A k \in DOMAIN duplicates :
     DuplicatePredicate(duplicates[k].Record_1_Index, duplicates[k].Record_2_Index)

\* A completed scan that emitted something and left out a pair whose name
\* similarity reaches the threshold but not 95, whose DOB gap exceeds the
\* tolerance and whose address similarity is below the enabled threshold.
C5_Witness ==
  /\ Finished
  /\ Len(duplicates) > 0
  /\ config.check_addr
  /\ \E p \in AllPairs(Len(df)) :
        /\ NameSimOf(p[1], p[2]) >= config.name_threshold * 100
        /\ NameSimOf(p[1], p[2]) >= 85 * 100
        /\ NameSimOf(p[1], p[2]) < 95 * 100
        /\ DobDiffOf(p[1], p[2]) > config.dob_tolerance_days
        /\ AddrSimOf(p[1], p[2]) < config.addr_threshold
        /\ p \notin EmittedPairs(duplicates)

\* C6 as stated: the confidence of every emitted pair lies in [0, 100], for
\* every setting with thresholds in [0, 100] and a non-negative tolerance.
C6_ConfidenceBounds ==
  \A k \in DOMAIN duplicates :
     /\ duplicates[k].Confidence_Score >= Percent(0)
     /\ duplicates[k].Confidence_Score <= Percent(100)

\* C6 amended: the same, when the DOB tolerance is at most 365 days.
C6_ConfidenceBoundsWithinYear ==
  config.dob_tolerance_days <= 365 => C6_ConfidenceBounds

\* A pair emitted under tier 2 with a tolerance of at most 365 days.
C6_Witness ==
  /\ config.dob_tolerance_days <= 365
  /\ \E k \in DOMAIN duplicates :
        /\ duplicates[k].Detection_Reasons = <<"Name similarity", "DOB difference">>
        /\ duplicates[k].DOB_Difference_Days > 0

\* C7, checked under SpecRerun: of two scans of one table that differ only
\* in the name threshold, the scan with the higher threshold emits a subset
\* of the pairs the other emits.
C7_ThresholdMonotone ==
  Finished /\ previous # << >> =>
    LET before == previous[1]
        now == EmittedPairs(duplicates)
    IN  /\ before.config = [config EXCEPT !.name_threshold = before.config.name_threshold]
        /\ before.config.name_threshold <= config.name_threshold =>
             now \subseteq before.pairs
        /\ config.name_threshold <= before.config.name_threshold =>
             before.pairs \subseteq now

\* The second scan ran with a higher threshold and emitted some, but not
\* all, of the pairs of the first.
C7_Witness ==
  /\ Finished
  /\ previous # << >>
  /\ previous[1].config.name_threshold < config.name_threshold
  /\ EmittedPairs(duplicates) # {}
  /\ EmittedPairs(duplicates) # previous[1].pairs
  /\ EmittedPairs(duplicates) \subseteq previous[1].pairs

\* C8: when a missing column is discovered, no pair other than the one at
\* hand has been compared and none has been emitted.
C8_MalformedInputUpFront ==
  pc = "KeyError" => compared \subseteq {PairKey(i, j)} /\ duplicates = << >>

PoolNames == { r.Full_Name : r \in RecordPool }

HasMissingName(entry) ==
  \/ isna(Row(entry.Record_1_Index).Full_Name)
  \/ isna(Row(entry.Record_2_Index).Full_Name)

\* calculate_name_similarity is 0 when either name is missing, and the scan
\* of a well-formed table does not raise.
MissingNameIsZero ==
  /\ \A name \in PoolNames :
        /\ calculate_name_similarity(NaN, name) = 0
        /\ calculate_name_similarity(name, NaN) = 0
  /\ columns = RequiredColumns => pc # "KeyError"

\* C9 as stated: besides, for every name threshold in [0, 100] no emitted
\* pair involves a row whose Full_Name is missing.
C9_MissingNameNeverEmitted ==
  /\ MissingNameIsZero
  /\ \A k \in DOMAIN duplicates : ~HasMissingName(duplicates[k])

\* C9 amended: the same for every name threshold above 0.
C9_MissingNameNeverEmittedAboveZero ==
  /\ MissingNameIsZero
  /\ config.name_threshold > 0 =>
       \A k \in DOMAIN duplicates : ~HasMissingName(duplicates[k])

\* A completed scan, with a positive threshold, of a table that holds a row
\* without a name next to rows that were paired.
C9_Witness ==
  /\ Finished
  /\ config.name_threshold > 0
  /\ Len(duplicates) > 0
  /\ \E k \in 0..(Len(df) - 1) : isna(Row(k).Full_Name)
  /\ \E k \in 0..(Len(df) - 1) : ~isna(Row(k).Full_Name)

UniqueVoterIDs ==
  \A a, b \in DOMAIN df : a # b => df[a].Voter_ID # df[b].Voter_ID

\* The Voter_IDs that occur in at least one emitted pair.
Implicated ==
  { id \in { r.Voter_ID : r \in RecordPool } :
      \E k \in DOMAIN duplicates :
         duplicates[k].Voter_ID_1 = id \/ duplicates[k].Voter_ID_2 = id }

\* C10: the "Potential Duplicates" statistic is the number of distinct
\* Voter_IDs that occur in an emitted pair; with unique Voter_IDs in the
\* table it is at most the number of rows and the duplicate percentage lies
\* in [0, 100].
C10_DistinctCount ==
  pc = "shown" /\ stats # << >> =>
    /\ stats[1].unique_duplicates = Cardinality(Implicated)
    /\ UniqueVoterIDs =>
         /\ stats[1].unique_duplicates <= Len(df)
         /\ stats[1].duplicate_percentage[2] = Len(df)
         /\ stats[1].duplicate_percentage[1] >= 0
         /\ stats[1].duplicate_percentage[1] <= 100 * stats[1].duplicate_percentage[2]

\* Three rows with unique Voter_IDs, each in two of the three emitted pairs.
C10_Witness ==
  /\ pc = "shown"
  /\ stats # << >>
  /\ UniqueVoterIDs
  /\ Len(duplicates) = 3
  /\ stats[1].unique_duplicates = 3

\* The gates of tier 2 and tier 3 on the metrics of a pair.
DobGate(a, b) == DobDiffOf(a, b) <= config.dob_tolerance_days
AddressGate(a, b) ==
  config.check_addr /\ AddrSimOf(a, b) >= config.addr_threshold

\* C11: every emitted pair carries the confidence and the reasons of the
\* first tier, in the order 1, 2, 3, whose condition it meets: a pair with
\* name similarity of 95 or more has the one reason of tier 1; below 95, a
\* pair within the DOB tolerance has the tier 2 confidence and the reasons
\* name similarity and DOB difference, also when its address gate holds;
\* any other emitted pair has the tier 3 confidence and reasons.
C11_FirstMatchWins ==
  \A k \in DOMAIN duplicates :
     LET e == duplicates[k]
         a == e.Record_1_Index
         b == e.Record_2_Index
     IN  IF NameSimOf(a, b) >= 95 * 100
         THEN /\ e.Confidence_Score = Tier1Confidence(NameSimOf(a, b))
              /\ e.Detection_Reasons = <<"High name similarity">>
         ELSE IF NameSimOf(a, b) >= config.name_threshold * 100 /\ DobGate(a, b)
         THEN /\ e.Confidence_Score = Tier2Confidence(NameSimOf(a, b), DobDiffOf(a, b))
              /\ e.Detection_Reasons = <<"Name similarity", "DOB difference">>
         ELSE /\ NameSimOf(a, b) >= config.name_threshold * 100
              /\ AddressGate(a, b)
              /\ e.Confidence_Score = Tier3Confidence(NameSimOf(a, b), AddrSimOf(a, b))
              /\ e.Detection_Reasons = <<"Name similarity", "Address similarity">>

\* An emitted pair below 95 that meets the DOB gate and the address gate,
\* and whose tier 2 and tier 3 confidences differ.
C11_Witness ==
  \E k \in DOMAIN duplicates :
     LET a == duplicates[k].Record_1_Index
         b == duplicates[k].Record_2_Index
     IN  /\ NameSimOf(a, b) < 95 * 100
         /\ NameSimOf(a, b) >= 85 * 100
         /\ config.name_threshold = 85
         /\ DobGate(a, b)
         /\ AddressGate(a, b)
         /\ Tier2Confidence(NameSimOf(a, b), DobDiffOf(a, b))
              # Tier3Confidence(NameSimOf(a, b), AddrSimOf(a, b))

---------------------------------------------------------------------------
(* Properties of the DOB metric.                                           *)

PoolDates == { r.Date_of_Birth : r \in RecordPool }

\* An empty cell, or text that pd.to_datetime rejects.
MissingOrUnparsable(cell) == cell \in {NaN, "unknown"}

MissingDob(entry) ==
  \/ MissingOrUnparsable(Row(entry.Record_1_Index).Date_of_Birth)
  \/ MissingOrUnparsable(Row(entry.Record_2_Index).Date_of_Birth)

\* calculate_dob_difference is symmetric, is the sentinel when either date
\* is missing or unparsable, and else the number of days between the dates.
DobDifferenceContract ==
  /\ \A d1, d2 \in PoolDates :
        /\ calculate_dob_difference(d1, d2) = calculate_dob_difference(d2, d1)
        /\ MissingOrUnparsable(d1) \/ MissingOrUnparsable(d2) =>
             calculate_dob_difference(d1, d2) = 999999
        /\ ~MissingOrUnparsable(d1) =>
             calculate_dob_difference(d1, d1) = 0
  /\ calculate_dob_difference("1990-01-01", "1990-01-21") = 20
  /\ calculate_dob_difference("1992-09-27", "1990-01-21") = 980
  /\ calculate_dob_difference("1990-01-01", "1992-09-27") = 1000

EmittedUnderTier2(entry) ==
  entry.Detection_Reasons = <<"Name similarity", "DOB difference">>

\* C12 as stated: besides the contract of calculate_dob_difference, for
\* every setting no pair with a missing or unparsable Date_of_Birth is
\* emitted under tier 2.
C12_SentinelNeverTier2 ==
  /\ DobDifferenceContract
  /\ \A k \in DOMAIN duplicates :
        MissingDob(duplicates[k]) => ~EmittedUnderTier2(duplicates[k])

\* C12 amended: the same for every DOB tolerance below the sentinel.
C12_SentinelNeverTier2BelowSentinel ==
  /\ DobDifferenceContract
  /\ config.dob_tolerance_days < 999999 =>
       \A k \in DOMAIN duplicates :
          MissingDob(duplicates[k]) => ~EmittedUnderTier2(duplicates[k])

\* With a tolerance within the slider's range, a pair with a missing
\* Date_of_Birth whose name similarity is between the threshold and 95 has
\* been emitted under tier 3, next to a pair emitted under tier 2.
C12_Witness ==
  /\ config.dob_tolerance_days <= 365
  /\ config.name_threshold = 85
  /\ \E k \in DOMAIN duplicates :
        /\ MissingDob(duplicates[k])
        /\ duplicates[k].DOB_Difference_Days = 999999
        /\ duplicates[k].Detection_Reasons = <<"Name similarity", "Address similarity">>
  /\ \E k \in DOMAIN duplicates : EmittedUnderTier2(duplicates[k])

====
